---- MODULE Spec2Model ----
(***************************************************************************)
(* HIFLD infrastructure search: the session state held by the Home         *)
(* component (src/src/app/page.tsx) -- search results, the selected layers *)
(* and the emergency presets -- together with the catalog search that      *)
(* feeds it.  Strings are sequences of one-character strings so that       *)
(* lowercasing, tokenizing and substring matching are computed.            *)
(***************************************************************************)
EXTENDS Integers, Sequences, FiniteSets, TLC

VARIABLES
    catalog,          \* records held by the catalog store (<<>> before load)
    loaded,           \* TRUE once a catalog load has succeeded
    searchQuery,      \* useState('')            page.tsx:344
    searchResults,    \* useState<Layer[]>([])   page.tsx:345
    selectedLayers,   \* useState<Layer[]>([])   page.tsx:346
    isLoading,        \* useState(false)         page.tsx:347
    hurricaneData,    \* useState<any[]>([])     page.tsx:348
    wildfireData,     \* useState<any[]>([])     page.tsx:349
    searchFailed,     \* console.error('Search failed:') emitted by the last completed search
    pendingSearches,  \* handleSearch calls suspended at `await searchLayers(query)`
    runs,             \* preset handler calls suspended at an await
    recent,           \* the latest operations on the selection (history)
    loadError,        \* what the last load call signalled
    viewReady,        \* MapView: viewRef.current is set (the map view exists)
    mapLayers,        \* MapView: the FeatureLayers of view.map, in the order added
    layerRefs,        \* MapView: layerRefsRef.current, the registry name -> FeatureLayer
    mapRuns,          \* MapView: updateLayers calls suspended at an await
    viewProp,         \* Home: the viewRef prop of ExportMapButton, read at the last render
    exportDoc,        \* ExportMapButton: what the last handleExport produced
    served,           \* middleware: the latest requests with their responses
    fetched           \* hurricaneService: the latest fetchActiveHurricanes calls

\* the state of Home and of the catalog behind it
homeVars == <<catalog, loaded, loadError, searchQuery, searchResults, selectedLayers,
              isLoading, hurricaneData, wildfireData, searchFailed,
              pendingSearches, runs>>

\* the state of the map, of the exporter and of the two services
sideVars == <<viewReady, mapLayers, layerRefs, mapRuns, viewProp, exportDoc, served, fetched>>

vars == <<catalog, loaded, loadError, searchQuery, searchResults, selectedLayers,
          isLoading, hurricaneData, wildfireData, searchFailed,
          pendingSearches, runs, recent,
          viewReady, mapLayers, layerRefs, mapRuns, viewProp, exportDoc, served, fetched>>

----------------------------------------------------------------------------
(* Bounds *)

MaxSel == 2           \* Spec: longest selection list explored
MaxRuns == 1          \* Spec: preset handler calls in flight at once
MaxPending == 1       \* Spec: handleSearch calls in flight at once
SelMaxSel == 3        \* SpecSelection: longest selection list explored
SelWindow == 3        \* SpecSelection: selection operations remembered
SearchMaxPending == 2 \* SpecSearch: handleSearch calls in flight at once
SearchWindow == 4     \* SpecSearch: search steps remembered
RankMaxLen == 3       \* SpecRank: longest catalog handed to load
StoreMaxSel == 1       \* SpecStore: longest selection list explored
StoreWindow == 3       \* SpecStore: calls remembered
DupMaxLen == 3         \* SpecDup: longest record list handed to load
MwWindow == 2          \* SpecMiddleware: requests remembered
MapMaxSel == 2         \* SpecMap: longest selection list explored
MaxMapRuns == 2        \* SpecMap: updateLayers calls in flight at once
MaxMapLayers == 2      \* SpecMap: most FeatureLayers on the map
PresetMaxRuns == 1     \* SpecPreset: preset calls in flight at once
PresetMaxSel == 3      \* SpecPreset: longest selection list explored
FeedMaxLen == 2        \* SpecFeed: most features in a reply of the storm feed
FeedWindow == 1        \* SpecFeed: fetchActiveHurricanes calls remembered

----------------------------------------------------------------------------
(* Characters and strings *)

UpperChars == <<"A","B","C","D","E","F","G","H","I","J","K","L","M",
                "N","O","P","Q","R","S","T","U","V","W","X","Y","Z">>
LowerChars == <<"a","b","c","d","e","f","g","h","i","j","k","l","m",
                "n","o","p","q","r","s","t","u","v","w","x","y","z">>
CodeOrder == <<" ","1">> \o UpperChars \o LowerChars

Ord(c) == CHOOSE i \in 1..Len(CodeOrder) : CodeOrder[i] = c

IsSpace(c) == c = " "

LowerChar(c) ==
    IF \E i \in 1..26 : UpperChars[i] = c
    THEN LowerChars[CHOOSE i \in 1..26 : UpperChars[i] = c]
    ELSE c

ToLower(s) == [i \in 1..Len(s) |-> LowerChar(s[i])]

\* s.includes(t)
Includes(s, t) ==
    \E i \in 0..(Len(s) - Len(t)) : SubSeq(s, i + 1, i + Len(t)) = t

\* a < b in lexicographic (code unit) order
StrLess(a, b) ==
    \/ /\ Len(a) < Len(b)
       /\ SubSeq(b, 1, Len(a)) = a
    \/ \E i \in 1..Len(a) :
          /\ i <= Len(b)
          /\ SubSeq(a, 1, i - 1) = SubSeq(b, 1, i - 1)
          /\ Ord(a[i]) < Ord(b[i])

----------------------------------------------------------------------------
(* Catalog records *)

NoEndpoint == "null"

hospital == <<"h","o","s","p","i","t","a","l">>
airport == <<"a","i","r","p","o","r","t">>
shelter == <<"s","h","e","l","t","e","r">>

HospitalA == [name |-> <<"H","o","s","p","i","t","a","l"," ","A">>,
              agency |-> <<"H","H","S">>, serviceUrl |-> "http://x",
              status |-> "Active", duaRequired |-> FALSE, giiRequired |-> FALSE]
HospitalB == [name |-> <<"H","o","s","p","i","t","a","l"," ","B">>,
              agency |-> <<"H","H","S">>, serviceUrl |-> NoEndpoint,
              status |-> "Restricted", duaRequired |-> TRUE, giiRequired |-> FALSE]
FireStation1 == [name |-> <<"F","i","r","e"," ","S","t","a","t","i","o","n"," ","1">>,
                 agency |-> <<"D","H","S">>, serviceUrl |-> "http://y",
                 status |-> "Active", duaRequired |-> FALSE, giiRequired |-> TRUE]
AirportShelter == [name |-> <<"A","i","r","p","o","r","t"," ","S","h","e","l","t","e","r">>,
                   agency |-> <<"F","A","A">>, serviceUrl |-> "http://z",
                   status |-> "Active", duaRequired |-> FALSE, giiRequired |-> FALSE]

ScenarioCatalog == <<HospitalA, HospitalB, FireStation1>>
ExtendedCatalog == <<FireStation1, AirportShelter, HospitalB, HospitalA>>

\* record lists the catalog source may hand to load
CatalogInputs == {<<>>, ScenarioCatalog, ExtendedCatalog}

Layers == {HospitalA, HospitalB, FireStation1, AirportShelter}
LayerNames == {l.name : l \in Layers}

\* JavaScript truthiness of layer.serviceUrl
HasService(l) == l.serviceUrl # NoEndpoint

Names(s) == {s[i].name : i \in 1..Len(s)}

----------------------------------------------------------------------------
(* Search: tokenizer and ranking engine (lib/search.ts, spec 4.2 and 4.3) *)

\* normalize without the lowercasing: tokens keep the case they were typed in
Normalize_CaseSensitive(query) ==
    LET n == Len(query)
    IN  { SubSeq(query, i, j) : <<i, j>> \in
            { p \in (1..n) \X (1..n) :
                /\ p[1] <= p[2]
                /\ \A k \in p[1]..p[2] : ~IsSpace(query[k])
                /\ (p[1] = 1 \/ IsSpace(query[p[1] - 1]))
                /\ (p[2] = n \/ IsSpace(query[p[2] + 1])) } }

\* normalize(query): lowercase, split on whitespace into non-empty tokens
Normalize(query) ==
    LET q == ToLower(query)
        n == Len(q)
    IN  { SubSeq(q, i, j) : <<i, j>> \in
            { p \in (1..n) \X (1..n) :
                /\ p[1] <= p[2]
                /\ \A k \in p[1]..p[2] : ~IsSpace(q[k])
                /\ (p[1] = 1 \/ IsSpace(q[p[1] - 1]))
                /\ (p[2] = n \/ IsSpace(q[p[2] + 1])) } }

NameWeight == 2
AgencyWeight == 1

\* a field contribution that gives the full weight to any match
FieldScore2_AnyIsFull(tokens, field, weight) ==
    IF \E t \in tokens : Includes(ToLower(field), t) THEN 2 * weight ELSE 0

\* a field contribution without the half weight: all tokens or nothing
FieldScore2_NoPartial(tokens, field, weight) ==
    IF \A t \in tokens : Includes(ToLower(field), t) THEN 2 * weight ELSE 0

\* twice the contribution of one field: weight x 1.0, weight x 0.5 or 0
FieldScore2(tokens, field, weight) ==
    LET f == ToLower(field)
    IN  IF \A t \in tokens : Includes(f, t) THEN 2 * weight
        ELSE IF \E t \in tokens : Includes(f, t) THEN weight
        ELSE 0

\* twice the record score (kept integral)
Score2(tokens, r) ==
    FieldScore2(tokens, r.name, NameWeight) + FieldScore2(tokens, r.agency, AgencyWeight)

\* the comparison without the tie-break: equal scores keep their input order
RanksBefore_ScoreOnly(tokens, a, b) == Score2(tokens, a) > Score2(tokens, b)

\* a ranks before b: score descending, then name ascending
RanksBefore(tokens, a, b) ==
    \/ Score2(tokens, a) > Score2(tokens, b)
    \/ /\ Score2(tokens, a) = Score2(tokens, b)
       /\ StrLess(a.name, b.name)

\* insert r into the ranked list s, after every entry that does not rank after it
InsertRanked(tokens, s, r) ==
    LET k == Cardinality({i \in 1..Len(s) : ~RanksBefore(tokens, r, s[i])})
    IN  SubSeq(s, 1, k) \o <<r>> \o SubSeq(s, k + 1, Len(s))

RECURSIVE SortRanked(_, _)
SortRanked(tokens, s) ==
    IF s = <<>> THEN <<>>
    ELSE InsertRanked(tokens, SortRanked(tokens, SubSeq(s, 1, Len(s) - 1)), s[Len(s)])

\* rank without the empty-token-set case: every record matches vacuously
Rank_NoEmptyCheck(tokens, records) ==
    SortRanked(tokens, SelectSeq(records, LAMBDA r : Score2(tokens, r) > 0))

\* rank without the exclusion of score 0: every record is returned
Rank_NoFilter(tokens, records) ==
    IF tokens = {} THEN <<>> ELSE SortRanked(tokens, records)

\* rank(tokenSet, catalog)
Rank(tokens, records) ==
    IF tokens = {} THEN <<>>
    ELSE SortRanked(tokens, SelectSeq(records, LAMBDA r : Score2(tokens, r) > 0))

\* the list searchLayers(query) resolves to once the catalog is loaded
SearchLayersResult(query) == Rank(Normalize(query), catalog)

----------------------------------------------------------------------------
(* Inputs *)

fireStation == <<"f","i","r","e"," ","s","t","a","t","i","o","n">>

\* what the user types into the search bar
Queries == {<<>>, <<" "," "," ">>, hospital, fireStation}

\* what a live feed (storms, fires) resolves to; the services never reject
FeedOutcomes == {<<>>, <<"event">>}

\* emergencyLayers of handleHurricanePreset
HurricaneTerms ==
    << hospital,
       <<"e","m","e","r","g","e","n","c","y"," ","m","e","d","i","c","a","l">>,
       shelter,
       <<"p","o","w","e","r"," ","p","l","a","n","t">>,
       airport,
       <<"e","v","a","c","u","a","t","i","o","n"," ","r","o","u","t","e">> >>

\* emergencyLayers of handleWildfirePreset
WildfireTerms ==
    << fireStation,
       hospital,
       <<"e","v","a","c","u","a","t","i","o","n">>,
       <<"w","a","t","e","r">>,
       <<"h","e","l","i","p","a","d">>,
       airport >>

Terms(kind) == IF kind = "hurricane" THEN HurricaneTerms ELSE WildfireTerms

----------------------------------------------------------------------------
(* Catalog store (spec 4.1) *)

RECURSIVE DedupLast_First(_)
\* of several records with one name, keep the first in input order
DedupLast_First(s) ==
    IF s = <<>> THEN <<>>
    ELSE <<s[1]>> \o DedupLast_First(SelectSeq(Tail(s), LAMBDA r : r.name # s[1].name))

RECURSIVE DedupLast(_)
\* of several records with one name, keep the last in input order
DedupLast(s) ==
    IF s = <<>> THEN <<>>
    ELSE IF \E j \in 2..Len(s) : s[j].name = s[1].name
         THEN DedupLast(Tail(s))
         ELSE <<s[1]>> \o DedupLast(Tail(s))

----------------------------------------------------------------------------
(* History of selection operations *)

\* h with e appended, cut to its last w entries
Push(h, e, w) ==
    LET a == Append(h, e)
    IN  IF Len(a) > w THEN SubSeq(a, Len(a) - w + 1, Len(a)) ELSE a

OpAdd(name) == [op |-> "add", name |-> name]
OpRemove(name) == [op |-> "remove", name |-> name]
OpClear == [op |-> "clear", name |-> <<>>]
OpSearch(query) == [op |-> "search", name |-> query]
OpResume == [op |-> "resume", name |-> <<>>]

\* a preset call is undisturbed while nobody else writes the selection
Disturb(rs) == [i \in DOMAIN rs |-> [rs[i] EXCEPT !.clean = FALSE]]

RemoveAt(s, i) == SubSeq(s, 1, i - 1) \o SubSeq(s, i + 1, Len(s))

----------------------------------------------------------------------------
(* Selection operations of Home (page.tsx) *)

\* handleAddLayer without the find: the layer is appended again
AddLayerResult_NoFind(sel, layer) == Append(sel, layer)

\* handleAddLayer spreading in the other order: [layer, ...selectedLayers]
AddLayerResult_Front(sel, layer) ==
    IF \E i \in 1..Len(sel) : sel[i].name = layer.name
    THEN sel
    ELSE <<layer>> \o sel

\* handleAddLayer: the list handed to setSelectedLayers
AddLayerResult(sel, layer) ==
    IF \E i \in 1..Len(sel) : sel[i].name = layer.name
    THEN sel
    ELSE Append(sel, layer)

\* handleRemoveLayer with the comparison turned round: l.name === layerName
RemoveLayerResult_Keep(sel, layerName) ==
    SelectSeq(sel, LAMBDA l : l.name = layerName)

\* handleRemoveLayer by splice(findIndex(...), 1): an index of -1 drops the
\* last entry
RemoveLayerResult_Splice(sel, layerName) ==
    IF \E i \in 1..Len(sel) : sel[i].name = layerName
    THEN SelectSeq(sel, LAMBDA l : l.name # layerName)
    ELSE SubSeq(sel, 1, Len(sel) - 1)

\* handleRemoveLayer: selectedLayers.filter(l => l.name !== layerName)
RemoveLayerResult(sel, layerName) ==
    SelectSeq(sel, LAMBDA l : l.name # layerName)

\* results.filter(layer => layer.serviceUrl): every result with a service URL
LayersToAdd_NoSlice(results) == SelectSeq(results, HasService)

\* results.filter(layer => layer.serviceUrl).slice(0, 2)
LayersToAdd(results) ==
    LET withService == SelectSeq(results, HasService)
    IN  SubSeq(withService, 1, IF Len(withService) < 2 THEN Len(withService) ELSE 2)

\* the forEach of a preset: each layer not found in the handler's own
\* selectedLayers (the list of the render the click came from) is appended
\* by a functional update
PresetAppend(sel, closure, layersToAdd) ==
    sel \o SelectSeq(layersToAdd, LAMBDA l : ~(\E i \in 1..Len(closure) : closure[i].name = l.name))

----------------------------------------------------------------------------
(* Initial state: Home mounted, nothing loaded *)

Init ==
    /\ catalog = <<>>
    /\ loaded = FALSE
    /\ loadError = "none"
    /\ searchQuery = <<>>
    /\ searchResults = <<>>
    /\ selectedLayers = <<>>
    /\ isLoading = FALSE
    /\ hurricaneData = <<>>
    /\ wildfireData = <<>>
    /\ searchFailed = FALSE
    /\ pendingSearches = <<>>
    /\ runs = <<>>
    /\ recent = <<>>
    /\ viewReady = FALSE
    /\ mapLayers = <<>>
    /\ layerRefs = {}
    /\ mapRuns = <<>>
    /\ viewProp = FALSE
    /\ exportDoc = <<>>
    /\ served = <<>>
    /\ fetched = <<>>

----------------------------------------------------------------------------
(* Catalog store: load(records), called by the host *)

\* load that replaces the catalog of a store already loaded
LoadCatalog_Replace(records) ==
    /\ IF records = <<>>
       THEN /\ loadError' = "EmptyCatalogError"
            /\ UNCHANGED <<catalog, loaded>>
       ELSE /\ catalog' = DedupLast(records)
            /\ loaded' = TRUE
            /\ loadError' = "none"
    /\ UNCHANGED <<searchQuery, searchResults, selectedLayers, isLoading,
                   hurricaneData, wildfireData, searchFailed, pendingSearches, runs>>

\* load that falls back to a built-in catalog when it is given no records
LoadCatalog_DefaultOnEmpty(records) ==
    /\ IF loaded
       THEN /\ loadError' = "AlreadyLoadedError"
            /\ UNCHANGED <<catalog, loaded>>
       ELSE /\ catalog' = (IF records = <<>> THEN ScenarioCatalog ELSE DedupLast(records))
            /\ loaded' = TRUE
            /\ loadError' = "none"
    /\ UNCHANGED <<searchQuery, searchResults, selectedLayers, isLoading,
                   hurricaneData, wildfireData, searchFailed, pendingSearches, runs>>

LoadCatalog(records) ==
    /\ IF loaded
       THEN /\ loadError' = "AlreadyLoadedError"
            /\ UNCHANGED <<catalog, loaded>>
       ELSE IF records = <<>>
       THEN /\ loadError' = "EmptyCatalogError"
            /\ UNCHANGED <<catalog, loaded>>
       ELSE /\ catalog' = DedupLast(records)
            /\ loaded' = TRUE
            /\ loadError' = "none"
    /\ UNCHANGED <<searchQuery, searchResults, selectedLayers, isLoading,
                   hurricaneData, wildfireData, searchFailed, pendingSearches, runs>>

----------------------------------------------------------------------------
(* handleSearch: up to the await, and from the await on *)

handleSearch(query) ==
    /\ searchQuery' = query
    /\ isLoading' = TRUE
    /\ pendingSearches' = Append(pendingSearches, [query |-> query, ok |-> loaded])
    /\ UNCHANGED <<catalog, loaded, loadError, searchResults, selectedLayers,
                   hurricaneData, wildfireData, searchFailed, runs>>

\* the resumed handler storing [] on both paths
SearchStored_Empty(call) == <<>>

\* what the resumed handler stores: the results, or [] from the catch block
SearchStored(call) ==
    IF call.ok THEN SearchLayersResult(call.query) ELSE <<>>

\* searchLayers settles its calls in the order they were made
NextSettled(calls) == Head(calls)

\* console.error('Search failed:', error) ran: the catch block was entered
SearchLogged(call) == ~call.ok

\* what searchLayers signalled to handleSearch
SearchSignal(call) == IF call.ok THEN "none" ELSE "CatalogNotReadyError"

handleSearchResume ==
    /\ pendingSearches # <<>>
    /\ searchResults' = SearchStored(NextSettled(pendingSearches))
    /\ searchFailed' = SearchLogged(NextSettled(pendingSearches))
    /\ isLoading' = FALSE
    /\ pendingSearches' = Tail(pendingSearches)
    /\ UNCHANGED <<catalog, loaded, loadError, searchQuery, selectedLayers,
                   hurricaneData, wildfireData, runs>>

----------------------------------------------------------------------------
(* Selection handlers *)

handleAddLayer(layer) ==
    /\ selectedLayers' = AddLayerResult(selectedLayers, layer)
    /\ runs' = IF selectedLayers' # selectedLayers THEN Disturb(runs) ELSE runs
    /\ UNCHANGED <<catalog, loaded, loadError, searchQuery, searchResults, isLoading,
                   hurricaneData, wildfireData, searchFailed, pendingSearches>>

handleRemoveLayer(layerName) ==
    /\ selectedLayers' = RemoveLayerResult(selectedLayers, layerName)
    /\ runs' = IF selectedLayers' # selectedLayers THEN Disturb(runs) ELSE runs
    /\ UNCHANGED <<catalog, loaded, loadError, searchQuery, searchResults, isLoading,
                   hurricaneData, wildfireData, searchFailed, pendingSearches>>

\* handleClearMap without setSelectedLayers([])
handleClearMap_DataOnly ==
    /\ hurricaneData' = <<>>
    /\ wildfireData' = <<>>
    /\ UNCHANGED <<catalog, loaded, loadError, searchQuery, searchResults, selectedLayers,
                   isLoading, searchFailed, pendingSearches, runs>>

\* handleClearMap resetting the search results as well
handleClearMap_AlsoResults ==
    /\ selectedLayers' = <<>>
    /\ hurricaneData' = <<>>
    /\ wildfireData' = <<>>
    /\ searchResults' = <<>>
    /\ runs' = IF selectedLayers' # selectedLayers THEN Disturb(runs) ELSE runs
    /\ UNCHANGED <<catalog, loaded, loadError, searchQuery, isLoading,
                   searchFailed, pendingSearches>>

handleClearMap ==
    /\ selectedLayers' = <<>>
    /\ hurricaneData' = <<>>
    /\ wildfireData' = <<>>
    /\ runs' = IF selectedLayers' # selectedLayers THEN Disturb(runs) ELSE runs
    /\ UNCHANGED <<catalog, loaded, loadError, searchQuery, searchResults, isLoading,
                   searchFailed, pendingSearches>>

----------------------------------------------------------------------------
(* Emergency presets *)

\* the call record of a preset handler suspended at its first await
NewRun(kind) ==
    [kind |-> kind, pc |-> 0, ok |-> TRUE, closure |-> selectedLayers,
     batch |-> <<>>, clean |-> TRUE]

\* handleHurricanePreset, up to `await fetchActiveHurricanes()`
handleHurricanePreset ==
    /\ IF hurricaneData # <<>>
       THEN /\ hurricaneData' = <<>>
            /\ selectedLayers' = <<>>
            /\ runs' = IF selectedLayers' # selectedLayers THEN Disturb(runs) ELSE runs
            /\ UNCHANGED isLoading
       ELSE /\ selectedLayers' = <<>>
            /\ isLoading' = TRUE
            /\ runs' = Append(IF selectedLayers' # selectedLayers THEN Disturb(runs) ELSE runs,
                              NewRun("hurricane"))
            /\ UNCHANGED hurricaneData
    /\ UNCHANGED <<catalog, loaded, loadError, searchQuery, searchResults,
                   wildfireData, searchFailed, pendingSearches>>

\* handleWildfirePreset, up to `await fetchActiveWildfires()`
handleWildfirePreset ==
    /\ IF wildfireData # <<>>
       THEN /\ wildfireData' = <<>>
            /\ selectedLayers' = <<>>
            /\ runs' = IF selectedLayers' # selectedLayers THEN Disturb(runs) ELSE runs
            /\ UNCHANGED <<isLoading, hurricaneData>>
       ELSE /\ selectedLayers' = <<>>
            /\ hurricaneData' = <<>>
            /\ isLoading' = TRUE
            /\ runs' = Append(IF selectedLayers' # selectedLayers THEN Disturb(runs) ELSE runs,
                              NewRun("wildfire"))
            /\ UNCHANGED wildfireData
    /\ UNCHANGED <<catalog, loaded, loadError, searchQuery, searchResults,
                   searchFailed, pendingSearches>>

\* a preset resumes with the feed's answer, stores it when non-empty and
\* calls searchLayers for its first term
PresetFeedResume(i, data) ==
    /\ runs[i].pc = 0
    /\ IF data # <<>> /\ runs[i].kind = "hurricane"
       THEN hurricaneData' = data ELSE UNCHANGED hurricaneData
    /\ IF data # <<>> /\ runs[i].kind = "wildfire"
       THEN wildfireData' = data ELSE UNCHANGED wildfireData
    /\ runs' = [runs EXCEPT ![i].pc = 1, ![i].ok = loaded]
    /\ UNCHANGED <<catalog, loaded, loadError, searchQuery, searchResults, selectedLayers,
                   isLoading, searchFailed, pendingSearches>>

\* a preset resumes with the results of its pc-th search: it appends, then
\* searches the next term or, after the last, alerts and clears the flag;
\* a rejected search goes to the catch block
PresetSearchResume(i) ==
    /\ runs[i].pc >= 1
    /\ LET run == runs[i]
           layersToAdd == LayersToAdd(SearchLayersResult(Terms(run.kind)[run.pc]))
           others == [j \in DOMAIN runs |-> IF j = i THEN runs[j]
                                            ELSE [runs[j] EXCEPT !.clean = FALSE]]
       IN  IF ~run.ok
           THEN /\ isLoading' = FALSE
                /\ runs' = RemoveAt(runs, i)
                /\ UNCHANGED selectedLayers
           ELSE /\ selectedLayers' = PresetAppend(selectedLayers, run.closure, layersToAdd)
                /\ IF run.pc < Len(Terms(run.kind))
                   THEN /\ runs' = [(IF selectedLayers' # selectedLayers THEN others ELSE runs)
                                      EXCEPT ![i].pc = run.pc + 1,
                                             ![i].ok = loaded,
                                             ![i].batch = run.batch \o layersToAdd]
                        /\ UNCHANGED isLoading
                   ELSE /\ runs' = RemoveAt(IF selectedLayers' # selectedLayers THEN others ELSE runs, i)
                        /\ isLoading' = FALSE
    /\ UNCHANGED <<catalog, loaded, loadError, searchQuery, searchResults,
                   hurricaneData, wildfireData, searchFailed, pendingSearches>>

----------------------------------------------------------------------------

(* The session: every handler of Home, the presets included *)

Untracked == recent' = <<>> /\ UNCHANGED sideVars

Next ==
    \/ /\ ~loaded
       /\ LoadCatalog(ScenarioCatalog)
       /\ Untracked
    \/ \E query \in Queries :
          /\ Len(pendingSearches) < MaxPending
          /\ handleSearch(query)
          /\ Untracked
    \/ handleSearchResume /\ Untracked
    \/ \E i \in 1..Len(searchResults) :
          /\ handleAddLayer(searchResults[i])
          /\ Len(selectedLayers') <= MaxSel
          /\ Untracked
    \/ \E layerName \in LayerNames : handleRemoveLayer(layerName) /\ Untracked
    \/ handleClearMap /\ Untracked
    \/ /\ hurricaneData = <<>> => Len(runs) < MaxRuns
       /\ handleHurricanePreset
       /\ Untracked
    \/ /\ wildfireData = <<>> => Len(runs) < MaxRuns
       /\ handleWildfirePreset
       /\ Untracked
    \/ \E i \in 1..Len(runs), data \in FeedOutcomes : PresetFeedResume(i, data) /\ Untracked
    \/ \E i \in 1..Len(runs) :
          /\ PresetSearchResume(i)
          /\ Len(selectedLayers') <= MaxSel
          /\ Untracked

Spec == Init /\ [][Next]_vars

----------------------------------------------------------------------------
(* The selection manager: search and the add / remove / clear handlers,    *)
(* with the latest operations on the selection remembered                  *)

Tracked(e) == recent' = Push(recent, e, SelWindow) /\ UNCHANGED sideVars

NextSelection ==
    \/ /\ ~loaded
       /\ LoadCatalog(ScenarioCatalog)
       /\ UNCHANGED <<recent, sideVars>>
    \/ \E query \in Queries :
          /\ pendingSearches = <<>>
          /\ handleSearch(query)
          /\ UNCHANGED <<recent, sideVars>>
    \/ handleSearchResume /\ UNCHANGED <<recent, sideVars>>
    \/ \E i \in 1..Len(searchResults) :
          /\ handleAddLayer(searchResults[i])
          /\ Len(selectedLayers') <= SelMaxSel
          /\ Tracked(OpAdd(searchResults[i].name))
    \/ \E layerName \in LayerNames :
          /\ handleRemoveLayer(layerName)
          /\ Tracked(OpRemove(layerName))
    \/ handleClearMap /\ Tracked(OpClear)

SpecSelection == Init /\ [][NextSelection]_vars

----------------------------------------------------------------------------
(* The search path alone: catalog load and overlapping handleSearch calls *)

TrackedSearch(e) == recent' = Push(recent, e, SearchWindow) /\ UNCHANGED sideVars

NextSearch ==
    \/ \E records \in CatalogInputs : LoadCatalog(records) /\ UNCHANGED <<recent, sideVars>>
    \/ \E query \in Queries :
          /\ Len(pendingSearches) < SearchMaxPending
          /\ handleSearch(query)
          /\ TrackedSearch(OpSearch(query))
    \/ handleSearchResume /\ TrackedSearch(OpResume)

SpecSearch == Init /\ [][NextSearch]_vars

----------------------------------------------------------------------------
(* Properties of the selection set *)

LastOp == recent[Len(recent)]

\* this step is the selection operation e (SpecSelection)
StepIs(e) ==
    /\ recent' = Push(recent, e, SelWindow)
    /\ pendingSearches' = pendingSearches
    /\ loaded' = loaded

Occurrences(sel, name) == Cardinality({i \in 1..Len(sel) : sel[i].name = name})

\* C1: no two entries of the selection set share a name, whatever handlers
\* ran and however a preset load interleaved with them.
C1_NoDuplicateNames ==
    \A i, j \in 1..Len(selectedLayers) :
        i # j => selectedLayers[i].name # selectedLayers[j].name

\* C2: add(r) directly followed by add(r), r with a service endpoint, leaves
\* the selection as the first add left it: one entry for r, same position.
C2_IdempotentAdd ==
    [][\A l \in Layers :
          (/\ HasService(l)
           /\ recent # <<>>
           /\ LastOp = OpAdd(l.name)
           /\ StepIs(OpAdd(l.name)))
          => (/\ selectedLayers' = selectedLayers
              /\ Occurrences(selectedLayers', l.name) = 1)]_vars

\* r was added twice in a row and is selected once
C2_Witness ==
    /\ Len(recent) >= 2
    /\ recent[Len(recent)] = OpAdd(HospitalA.name)
    /\ recent[Len(recent) - 1] = OpAdd(HospitalA.name)
    /\ selectedLayers = <<FireStation1, HospitalA>>

\* C3: add(r) for a record r without service endpoint leaves the selection
\* unchanged.
C3_UnaddableRecords ==
    [][\A l \in Layers :
          (~HasService(l) /\ StepIs(OpAdd(l.name)))
          => selectedLayers' = selectedLayers]_vars

\* C4: entries are listed in insertion order: an add of a name that is not
\* selected puts the entry at the end and leaves the entries before it as
\* they were, so that r1, r2, r3 reads r1, r2, r3 and removing r2 and
\* re-adding it reads r1, r3, r2.
C4_InsertionOrder ==
    [][/\ \A l \in Layers :
            (StepIs(OpAdd(l.name)) /\ l.name \notin Names(selectedLayers))
            => (/\ Len(selectedLayers') = Len(selectedLayers) + 1
                /\ selectedLayers'[Len(selectedLayers')] = l
                /\ SubSeq(selectedLayers', 1, Len(selectedLayers)) = selectedLayers)
       /\ \A name \in LayerNames :
            StepIs(OpRemove(name))
            => \A i, j \in 1..Len(selectedLayers') :
                  i < j => \E m, n \in 1..Len(selectedLayers) :
                              /\ m < n
                              /\ selectedLayers[m] = selectedLayers'[i]
                              /\ selectedLayers[n] = selectedLayers'[j]]_vars

\* r3 was added, r2 removed and re-added: the selection reads r1, r3, r2
C4_Witness ==
    /\ recent = <<OpAdd(FireStation1.name), OpRemove(HospitalB.name), OpAdd(HospitalB.name)>>
    /\ selectedLayers = <<HospitalA, FireStation1, HospitalB>>

\* the place entry i of sel takes when the entries named name are taken out
Shifted(sel, name, i) ==
    i - Cardinality({j \in 1..i : sel[j].name = name})

\* C6: remove(name) takes out the entry with that name and leaves every
\* other entry, and their relative order, unchanged; with no such entry the
\* selection is unchanged.
C6_RemoveFrame ==
    [][\A name \in LayerNames :
          StepIs(OpRemove(name))
          => (/\ name \notin Names(selectedLayers')
              /\ Len(selectedLayers') =
                     Len(selectedLayers) - Occurrences(selectedLayers, name)
              /\ \A i \in 1..Len(selectedLayers) :
                     selectedLayers[i].name # name
                     => selectedLayers'[Shifted(selectedLayers, name, i)] = selectedLayers[i]
              /\ (name \notin Names(selectedLayers) => selectedLayers' = selectedLayers))]_vars

\* the middle entry of three was removed, the other two remain in order
C6_Witness ==
    /\ recent = <<OpAdd(FireStation1.name), OpAdd(HospitalA.name), OpRemove(FireStation1.name)>>
    /\ selectedLayers = <<HospitalB, HospitalA>>

\* C7: immediately after clear the selection set is empty.
C7_ClearEmpties ==
    (recent # <<>> /\ LastOp = OpClear) => selectedLayers = <<>>

\* clear acted on a selection of two entries
C7_Witness ==
    /\ Len(recent) = 3
    /\ recent[1].op = "add"
    /\ recent[2].op = "add"
    /\ recent[1].name # recent[2].name
    /\ recent[3] = OpClear
    /\ selectedLayers = <<>>

----------------------------------------------------------------------------
(* The bulk preset operation against the selection manager's contract *)

\* add(r) of the contract: no-op without endpoint or on a selected name
ContractAdd(sel, r) ==
    IF ~HasService(r) \/ r.name \in Names(sel) THEN sel ELSE Append(sel, r)

RECURSIVE ContractAddAll(_, _)
ContractAddAll(sel, records) ==
    IF records = <<>> THEN sel
    ELSE ContractAddAll(ContractAdd(sel, records[1]), Tail(records))

\* replaceAll(records) of the contract: clear, then add each in order
ContractReplaceAll(records) == ContractAddAll(<<>>, records)

\* preset call i resumes from its last search and nobody else has written
\* the selection since the click
FinishesUndisturbed(i) ==
    /\ runs[i].pc = Len(Terms(runs[i].kind))
    /\ runs[i].ok
    /\ runs[i].clean
    /\ PresetSearchResume(i)

\* the records preset call i has handed to its add loop, the last term included
Handed(i) ==
    runs[i].batch \o LayersToAdd(SearchLayersResult(Terms(runs[i].kind)[runs[i].pc]))

\* C5: a preset load leaves exactly the selection that clear() followed by
\* add(r) for each of its records, in order, produces, whatever was selected
\* before the click.
C5_ReplaceAllIsClearThenAdd ==
    [][\A i \in 1..Len(runs) :
          FinishesUndisturbed(i)
          => selectedLayers' = ContractReplaceAll(Handed(i))]_vars

----------------------------------------------------------------------------
(* Properties of search *)

C9_Independent ==
    [][loaded =>
          /\ (pendingSearches' # pendingSearches => selectedLayers' = selectedLayers)
          /\ (recent' # recent => (searchResults' = searchResults /\ searchQuery' = searchQuery))]_vars

\* a search is in flight over a non-empty selection whose last add kept the
\* results of the search before
C9_Witness ==
    /\ loaded
    /\ pendingSearches # <<>>
    /\ selectedLayers = <<HospitalA, HospitalB>>
    /\ searchResults = <<HospitalA, HospitalB>>
    /\ recent # <<>>

Blank(query) == \A k \in 1..Len(query) : IsSpace(query[k])

\* C10: an empty or whitespace-only query has no tokens, and the search for
\* it stores the empty list without the error path, whatever the catalog.
C10_BlankQuery ==
    [][(/\ handleSearchResume
        /\ Blank(Head(pendingSearches).query)
        /\ Head(pendingSearches).ok)
       => (/\ Normalize(Head(pendingSearches).query) = {}
           /\ searchResults' = <<>>
           /\ ~searchFailed')]_vars

\* the whitespace-only query completed over a loaded catalog, right after a
\* search that had found something
C10_Witness ==
    /\ loaded
    /\ recent = <<OpSearch(hospital), OpResume, OpSearch(<<" ", " ", " ">>), OpResume>>
    /\ pendingSearches = <<>>
    /\ searchResults = <<>>
    /\ ~searchFailed

----------------------------------------------------------------------------
(* The ranking engine over varied catalogs: load once, then search *)

FireHydrant == [name |-> <<"F","i","r","e"," ","H","y","d","r","a","n","t">>,
                agency |-> <<"F","i","r","e"," ","S","t","a","t","i","o","n">>,
                serviceUrl |-> "http://h",
                status |-> "Active", duaRequired |-> FALSE, giiRequired |-> FALSE]
Pumps == [name |-> <<"P","u","m","p","s">>,
          agency |-> <<"F","i","r","e">>, serviceUrl |-> "http://p",
          status |-> "Active", duaRequired |-> FALSE, giiRequired |-> FALSE]

fire == <<"f","i","r","e">>
FIRE == <<"F","I","R","E">>

RankPool == {FireStation1, FireHydrant, HospitalA, HospitalB, Pumps, AirportShelter}

\* the record lists handed to load: every order of up to RankMaxLen records
RankCatalogs ==
    { c \in UNION { [1..n -> RankPool] : n \in 1..RankMaxLen } :
        \A i, j \in 1..Len(c) : i # j => c[i] # c[j] }

RankQueries == {<<>>, hospital, fire, FIRE, fireStation}

NextRank ==
    \/ \E records \in RankCatalogs :
          /\ ~loaded
          /\ LoadCatalog(records)
          /\ UNCHANGED <<recent, sideVars>>
    \/ \E query \in RankQueries :
          /\ pendingSearches = <<>>
          /\ handleSearch(query)
          /\ UNCHANGED <<recent, sideVars>>
    \/ handleSearchResume /\ UNCHANGED <<recent, sideVars>>

SpecRank == Init /\ [][NextRank]_vars

----------------------------------------------------------------------------
(* Properties of the ranking *)

\* the list of a completed search over the loaded catalog is stored
Stored == loaded /\ pendingSearches = <<>> /\ ~searchFailed

\* at least one token is a substring of the lowercased name or agency
Matches(tokens, r) ==
    \E t \in tokens : Includes(ToLower(r.name), t) \/ Includes(ToLower(r.agency), t)

Hits(tokens, field) == Cardinality({t \in tokens : Includes(ToLower(field), t)})

Reorderings(c) ==
    { d \in RankCatalogs :
        Len(d) = Len(c) /\ {d[i] : i \in 1..Len(d)} = {c[i] : i \in 1..Len(c)} }

\* C13: a stored result list is in descending order of score, records of
\* equal score in ascending order of name, and it is the list that ranking
\* gives for the same records handed to load in any other order.
C13_SortedWhateverTheInputOrder ==
    Stored =>
       LET tokens == Normalize(searchQuery)
       IN  /\ \A i, j \in 1..Len(searchResults) :
                 i < j =>
                    \/ Score2(tokens, searchResults[i]) > Score2(tokens, searchResults[j])
                    \/ /\ Score2(tokens, searchResults[i]) = Score2(tokens, searchResults[j])
                       /\ StrLess(searchResults[i].name, searchResults[j].name)
           /\ \A d \in Reorderings(catalog) : Rank(tokens, d) = searchResults

\* two records of equal score were loaded in descending order of name
C13_Witness ==
    /\ Stored
    /\ searchQuery = hospital
    /\ catalog = <<HospitalB, FireStation1, HospitalA>>
    /\ searchResults = <<HospitalA, HospitalB>>

\* every token of the query is a substring of the lowercased name
NameFull(tokens, r) == Hits(tokens, r.name) = Cardinality(tokens)

DifferOnlyInCase(a, b) ==
    /\ Len(a) = Len(b)
    /\ \A k \in 1..Len(a) :
          \/ a[k] = b[k]
          \/ \E i \in 1..26 : {a[k], b[k]} = {UpperChars[i], LowerChars[i]}

\* C15: when a search over the loaded catalog completes, the list it stores
\* is the ranked list of every query that differs from it only in letter
\* case, every record scores the same under both, and the catalog records
\* are as they were.
C15_CaseInsensitive ==
    [][(/\ pendingSearches # <<>>
        /\ pendingSearches' = Tail(pendingSearches)
        /\ Head(pendingSearches).ok)
       => /\ catalog' = catalog
          /\ \A other \in RankQueries :
                DifferOnlyInCase(Head(pendingSearches).query, other)
                => /\ searchResults' = Rank(Normalize(other), catalog)
                   /\ \A k \in 1..Len(catalog) :
                         Score2(Normalize(Head(pendingSearches).query), catalog[k])
                         = Score2(Normalize(other), catalog[k])]_vars

\* 'FIRE' found the records that 'fire' finds, in a catalog of mixed-case names
C15_Witness ==
    /\ Stored
    /\ searchQuery = FIRE
    /\ catalog = <<Pumps, FireStation1, HospitalA>>
    /\ searchResults = <<FireStation1, Pumps>>
    /\ searchResults = Rank(Normalize(fire), catalog)

----------------------------------------------------------------------------
(* The scenario of spec 8 *)

\* C16: on the catalog [Hospital A, Hospital B (no endpoint), Fire Station 1]
\* the search for 'hospital' stores Hospital A then Hospital B, both of
\* score 2.0; adding Hospital B to the empty selection leaves it empty, and
\* adding Hospital A twice after that leaves [Hospital A].
C16_Scenario ==
    (loaded /\ catalog = ScenarioCatalog) =>
       /\ (Stored /\ searchQuery = hospital)
          => /\ searchResults = <<HospitalA, HospitalB>>
             /\ Score2(Normalize(hospital), HospitalA) = 4
             /\ Score2(Normalize(hospital), HospitalB) = 4
       /\ recent = <<OpAdd(HospitalB.name)>> => selectedLayers = <<>>
       /\ recent = <<OpAdd(HospitalB.name), OpAdd(HospitalA.name), OpAdd(HospitalA.name)>>
          => selectedLayers = <<HospitalA>>

----------------------------------------------------------------------------
(* The catalog store under the session: load by the host at any time,      *)
(* search, add and remove, each call remembered with what it signalled     *)

RECURSIVE AllNames(_)
\* the names of the records handed to load, one after the other
AllNames(records) ==
    IF records = <<>> THEN <<>> ELSE records[1].name \o AllNames(Tail(records))

OpLoad(records) == [op |-> "load", name |-> AllNames(records)]

\* the call e together with the error it raised to its caller ("none": it
\* returned normally)
Signalled(e, err) == [op |-> e.op, name |-> e.name, err |-> err]

Signals == {"none", "EmptyCatalogError", "AlreadyLoadedError", "CatalogNotReadyError"}

StoreQueries == {hospital, shelter}

\* names handed to remove: one that every catalog holds, one that the
\* scenario catalog does not hold
StoreNames == {HospitalA.name, AirportShelter.name}

TrackedStore(e) == recent' = Push(recent, e, StoreWindow) /\ UNCHANGED sideVars

NextStore ==
    \/ \E records \in CatalogInputs :
          /\ LoadCatalog(records)
          /\ TrackedStore(Signalled(OpLoad(records), loadError'))
    \/ \E query \in StoreQueries :
          /\ pendingSearches = <<>>
          /\ handleSearch(query)
          /\ TrackedStore(Signalled(OpSearch(query), "none"))
    \/ /\ handleSearchResume
       /\ TrackedStore(Signalled(OpResume, SearchSignal(NextSettled(pendingSearches))))
    \/ \E i \in 1..Len(searchResults) :
          /\ handleAddLayer(searchResults[i])
          /\ Len(selectedLayers') <= StoreMaxSel
          /\ TrackedStore(Signalled(OpAdd(searchResults[i].name), "none"))
    \/ \E layerName \in StoreNames :
          /\ handleRemoveLayer(layerName)
          /\ TrackedStore(Signalled(OpRemove(layerName), "none"))

SpecStore == Init /\ [][NextStore]_vars

\* this step is the call e (SpecStore)
StoreStepIs(e) == recent' = Push(recent, e, StoreWindow)

\* this step is a call of load with these records
LoadStep(records) == \E e \in Signals : StoreStepIs(Signalled(OpLoad(records), e))

\* this step completes a search that searchLayers answered
AnsweredStep ==
    /\ pendingSearches # <<>>
    /\ pendingSearches' = Tail(pendingSearches)
    /\ NextSettled(pendingSearches).ok

----------------------------------------------------------------------------
(* Properties of the catalog store and of the session before load *)

\* C17: once a load has succeeded, every further load raises
\* AlreadyLoadedError, no step changes the catalog, and every search that
\* completes afterwards stores the ranking over that first catalog.
C17_LoadOnce ==
    [][loaded =>
          /\ catalog' = catalog
          /\ loaded'
          /\ \A records \in CatalogInputs :
                LoadStep(records) => loadError' = "AlreadyLoadedError"
          /\ AnsweredStep
             => searchResults' = Rank(Normalize(NextSettled(pendingSearches).query), catalog)]_vars

\* a second load, with the catalog that holds Airport Shelter, was refused;
\* the search for 'shelter' after it found nothing in the first catalog
C17_Witness ==
    /\ catalog = ScenarioCatalog
    /\ loadError = "AlreadyLoadedError"
    /\ recent = << Signalled(OpLoad(ExtendedCatalog), "AlreadyLoadedError"),
                   Signalled(OpSearch(shelter), "none"),
                   Signalled(OpResume, "none") >>
    /\ searchResults = <<>>
    /\ ~searchFailed

\* C18: load with zero records on a store not yet loaded raises
\* EmptyCatalogError and leaves the store unloaded with no records in it;
\* whenever that error is the outcome of the last load, no catalog is there.
C18_EmptyCatalogFails ==
    [][/\ (~loaded /\ LoadStep(<<>>))
          => /\ loadError' = "EmptyCatalogError"
             /\ LastOp'.err = "EmptyCatalogError"
             /\ ~loaded'
             /\ catalog' = <<>>
       /\ loadError' = "EmptyCatalogError" => (~loaded' /\ catalog' = <<>>)]_vars

\* the empty load failed and the search after it found no catalog
C18_Witness ==
    /\ ~loaded
    /\ catalog = <<>>
    /\ loadError = "EmptyCatalogError"
    /\ recent = << Signalled(OpLoad(<<>>), "EmptyCatalogError"),
                   Signalled(OpSearch(hospital), "none"),
                   Signalled(OpResume, "CatalogNotReadyError") >>
    /\ searchResults = <<>>

\* C19: before load has succeeded, a completed search, an add
\* and a remove each signal CatalogNotReadyError; the search stores the
\* empty list and the selection is unchanged (empty).
C19_NotReadySignalled ==
    (~loaded /\ recent # <<>> /\ LastOp.op \in {"resume", "add", "remove"})
    => /\ LastOp.err = "CatalogNotReadyError"
       /\ selectedLayers = <<>>
       /\ LastOp.op = "resume" => searchResults = <<>>

----------------------------------------------------------------------------
(* Load of record lists that repeat a name, then search *)

\* a second record named Hospital A, from another agency and endpoint
HospitalAState == [name |-> HospitalA.name,
                   agency |-> <<"S","t","a","t","e">>, serviceUrl |-> "http://s",
                   status |-> "Active", duaRequired |-> TRUE, giiRequired |-> FALSE]

DupPool == {HospitalA, HospitalAState, HospitalB}

\* the record lists handed to load: any records of the pool, repeats included
DupCatalogs == UNION { [1..n -> DupPool] : n \in 1..DupMaxLen }

\* the load call with the list it was given
OpLoadOf(records) == [op |-> "load", name |-> AllNames(records), records |-> records]

NextDup ==
    \/ \E records \in DupCatalogs :
          /\ ~loaded
          /\ LoadCatalog(records)
          /\ recent' = <<OpLoadOf(records)>>
          /\ UNCHANGED sideVars
    \/ \E query \in StoreQueries :
          /\ pendingSearches = <<>>
          /\ handleSearch(query)
          /\ UNCHANGED <<recent, sideVars>>
    \/ handleSearchResume /\ UNCHANGED <<recent, sideVars>>

SpecDup == Init /\ [][NextDup]_vars

\* the position of the last record of that name in the list
LastIndexOf(records, name) ==
    CHOOSE i \in 1..Len(records) :
       /\ records[i].name = name
       /\ \A j \in (i + 1)..Len(records) : records[j].name # name

\* C21: after load was given a list in which names repeat, the store is
\* loaded without error and holds, for every name of the list, exactly one
\* record, the last of that name in the list, and no other record.
C21_LastDuplicateWins ==
    recent # <<>> =>
       LET given == recent[1].records
       IN  /\ loaded
           /\ loadError = "none"
           /\ \A i \in 1..Len(given) :
                 /\ Cardinality({k \in 1..Len(catalog) : catalog[k].name = given[i].name}) = 1
                 /\ \E k \in 1..Len(catalog) :
                       catalog[k] = given[LastIndexOf(given, given[i].name)]
           /\ \A k \in 1..Len(catalog) : \E i \in 1..Len(given) : given[i].name = catalog[k].name

\* Hospital A came first and last in the list; the last one is kept and is
\* what the search for 'hospital' finds
C21_Witness ==
    /\ recent # <<>>
    /\ recent[1].records = <<HospitalA, HospitalB, HospitalAState>>
    /\ catalog = <<HospitalB, HospitalAState>>
    /\ Stored
    /\ searchQuery = hospital
    /\ searchResults = <<HospitalAState, HospitalB>>

----------------------------------------------------------------------------
(* The request middleware (src/src/middleware.ts) *)

ApiPrefix == <<"/","a","p","i","/">>
VerifyPath == <<"/","a","p","i","/","a","u","t","h","/","v","e","r","i","f","y">>

\* pathnames the matcher '/api/:path*' hands to the middleware
MwPaths ==
    { <<"/","a","p","i">>,
      <<"/","a","p","i","/","a","u","t","h">>,
      VerifyPath,
      VerifyPath \o <<"2">>,
      <<"/","a","p","i","/","m","a","p","s">> }

\* cookie jars of a request
MwCookies ==
    { <<>>,
      <<[name |-> "hifld-auth", value |-> "authenticated"]>>,
      <<[name |-> "hifld-auth", value |-> "guest"]>>,
      <<[name |-> "session", value |-> "authenticated"]>>,
      <<[name |-> "session", value |-> "abc"], [name |-> "hifld-auth", value |-> "authenticated"]>> }

\* s.startsWith(prefix)
StartsWith(s, prefix) ==
    Len(s) >= Len(prefix) /\ SubSeq(s, 1, Len(prefix)) = prefix

Undefined == [name |-> "undefined", value |-> "undefined"]

\* request.cookies.get(name)
CookieGet(cookies, name) ==
    IF \E i \in 1..Len(cookies) : cookies[i].name = name
    THEN cookies[CHOOSE i \in 1..Len(cookies) : cookies[i].name = name]
    ELSE Undefined

PassThrough == [status |-> 0, body |-> "next"]
Unauthorized == [status |-> 401, body |-> "Unauthorized"]

\* the middleware accepting any hifld-auth cookie, whatever its value
middleware_AnyValue(request) ==
    IF request.pathname = VerifyPath THEN PassThrough
    ELSE IF /\ StartsWith(request.pathname, ApiPrefix)
            /\ CookieGet(request.cookies, "hifld-auth") = Undefined
         THEN Unauthorized
         ELSE PassThrough

middleware(request) ==
    IF request.pathname = VerifyPath THEN PassThrough
    ELSE IF /\ StartsWith(request.pathname, ApiPrefix)
            /\ LET authCookie == CookieGet(request.cookies, "hifld-auth")
               IN  authCookie = Undefined \/ authCookie.value # "authenticated"
         THEN Unauthorized
         ELSE PassThrough

\* one request is answered
Serve(request) ==
    /\ served' = Push(served, [request |-> request, response |-> middleware(request)], MwWindow)
    /\ UNCHANGED <<homeVars, recent, viewReady, mapLayers, layerRefs, mapRuns, viewProp, exportDoc, fetched>>

NextMiddleware ==
    \E pathname \in MwPaths, cookies \in MwCookies :
       Serve([pathname |-> pathname, cookies |-> cookies])

SpecMiddleware == Init /\ [][NextMiddleware]_vars

\* the request carries the cookie hifld-auth with the value 'authenticated'
Authenticated(request) ==
    \E i \in 1..Len(request.cookies) :
       request.cookies[i] = [name |-> "hifld-auth", value |-> "authenticated"]

\* C22: every answered request to /api/auth/verify was passed through;
\* every other answered request under /api/ got 401 Unauthorized exactly
\* when it did not carry the cookie hifld-auth = 'authenticated'.
C22_ApiNeedsCookie ==
    \A k \in 1..Len(served) :
       LET request == served[k].request
           response == served[k].response
       IN  /\ request.pathname = VerifyPath => response = PassThrough
           /\ (StartsWith(request.pathname, ApiPrefix) /\ request.pathname # VerifyPath)
              => (response.status = 401 <=> ~Authenticated(request))

\* a request with a hifld-auth cookie of another value was refused, and the
\* verify endpoint was passed through without any cookie
C22_Witness ==
    /\ Len(served) = 2
    /\ served[1].request = [pathname |-> <<"/","a","p","i","/","m","a","p","s">>,
                             cookies |-> <<[name |-> "hifld-auth", value |-> "guest"]>>]
    /\ served[1].response = Unauthorized
    /\ served[2].request = [pathname |-> VerifyPath, cookies |-> <<>>]
    /\ served[2].response = PassThrough

----------------------------------------------------------------------------
(* MapView: the effect on [layers] and its updateLayers calls.  A          *)
(* FeatureLayer on the map is [id, name]; the registry layerRefs holds     *)
(* [name, id] entries, one per name.  MapView.tsx loads a temporary layer  *)
(* and then adds and registers the FeatureLayer; the variant of part_003   *)
(* adds the FeatureLayer, awaits it and registers it afterwards (addFirst).*)

RefNames(refs) == {e.name : e \in refs}

\* the identity of a FeatureLayer object created now
FreshId(ml) ==
    CHOOSE n \in 1..(Len(ml) + 1) :
       /\ \A k \in 1..Len(ml) : ml[k].id # n
       /\ \A m \in 1..(n - 1) : \E k \in 1..Len(ml) : ml[k].id = m

\* layerRefs.set(name, featureLayer)
SetRef(refs, name, id) == {e \in refs : e.name # name} \cup {[name |-> name, id |-> id]}

\* updateLayers() up to its first await (the imports)
NewMapRun(layers) == [layers |-> layers, idx |-> 0, held |-> 0]

\* the effect of a render with a new layers array: nothing without a view
AfterRender(rs, layers) == IF viewReady THEN Append(rs, NewMapRun(layers)) ELSE rs

\* the registry entries whose name is not among the layers of the run
Stale(refs, layers) == {e \in refs : e.name \notin Names(layers)}

\* the first layer from position from on that the add loop does not skip
NextToAdd(layers, from, refs) ==
    IF \E k \in from..Len(layers) :
          HasService(layers[k]) /\ layers[k].name \notin RefNames(refs)
    THEN CHOOSE k \in from..Len(layers) :
            /\ HasService(layers[k]) /\ layers[k].name \notin RefNames(refs)
            /\ \A j \in from..(k - 1) :
                  ~(HasService(layers[j]) /\ layers[j].name \notin RefNames(refs))
    ELSE 0

\* the add loop of run i from position from on, up to its next await or its end
ContinueRun(i, from, ml, refs, addFirst) ==
    LET run == mapRuns[i]
        k == NextToAdd(run.layers, from, refs)
    IN  /\ layerRefs' = refs
        /\ IF k = 0
           THEN /\ mapRuns' = RemoveAt(mapRuns, i)
                /\ mapLayers' = ml
           ELSE IF addFirst
           THEN /\ mapLayers' = Append(ml, [id |-> FreshId(ml), name |-> run.layers[k].name])
                /\ mapRuns' = [mapRuns EXCEPT ![i] = [run EXCEPT !.idx = k, !.held = FreshId(ml)]]
           ELSE /\ mapLayers' = ml
                /\ mapRuns' = [mapRuns EXCEPT ![i] = [run EXCEPT !.idx = k]]

\* the imports resolve: stale layers are removed, then the add loop starts
MapImportResume(i, addFirst) ==
    /\ mapRuns[i].idx = 0
    /\ LET stale == Stale(layerRefs, mapRuns[i].layers)
       IN  ContinueRun(i, 1,
                       SelectSeq(mapLayers, LAMBDA l : l.id \notin {e.id : e \in stale}),
                       layerRefs \ stale, addFirst)
    /\ UNCHANGED <<homeVars, recent, viewReady, viewProp, exportDoc, served, fetched>>

\* tempLayer.load() / featureLayer.when() settles, with success or not
MapLoadResume(i, ok, addFirst) ==
    /\ mapRuns[i].idx > 0
    /\ LET run == mapRuns[i]
           name == run.layers[run.idx].name
       IN  IF addFirst
           THEN ContinueRun(i, run.idx + 1, mapLayers,
                            IF ok THEN SetRef(layerRefs, name, run.held) ELSE layerRefs,
                            addFirst)
           ELSE ContinueRun(i, run.idx + 1,
                            IF ok THEN Append(mapLayers, [id |-> FreshId(mapLayers), name |-> name])
                                  ELSE mapLayers,
                            IF ok THEN SetRef(layerRefs, name, FreshId(mapLayers)) ELSE layerRefs,
                            addFirst)
    /\ UNCHANGED <<homeVars, recent, viewReady, viewProp, exportDoc, served, fetched>>

\* initializeMap has created the view
MapInitialized ==
    /\ ~viewReady
    /\ viewReady' = TRUE
    /\ UNCHANGED <<homeVars, recent, mapLayers, layerRefs, mapRuns, viewProp, exportDoc, served, fetched>>

MapQueries == {hospital, fireStation}

\* Home renders after a step: the exporter's viewRef prop is read anew
\* (mapViewRef.current?.getView()); the map is left alone
HomeOnly ==
    /\ viewProp' = viewReady
    /\ UNCHANGED <<recent, viewReady, mapLayers, layerRefs, mapRuns, exportDoc, served, fetched>>

\* the same, and the new selectedLayers array starts an updateLayers call
Rendered ==
    /\ viewProp' = viewReady
    /\ mapRuns' = AfterRender(mapRuns, selectedLayers')
    /\ Len(mapRuns') <= MaxMapRuns
    /\ UNCHANGED <<recent, viewReady, mapLayers, layerRefs, exportDoc, served, fetched>>

\* the steps of Home; onSelection says what a new selectedLayers array starts
HomeSteps(onSelection) ==
    \/ /\ ~loaded
       /\ LoadCatalog(ScenarioCatalog)
       /\ HomeOnly
    \/ \E query \in MapQueries :
          /\ pendingSearches = <<>>
          /\ handleSearch(query)
          /\ HomeOnly
    \/ handleSearchResume /\ HomeOnly
    \/ \E i \in 1..Len(searchResults) :
          /\ handleAddLayer(searchResults[i])
          /\ selectedLayers' # selectedLayers
          /\ Len(selectedLayers') <= MapMaxSel
          /\ onSelection
    \/ \E k \in 1..Len(selectedLayers) :
          /\ handleRemoveLayer(selectedLayers[k].name)
          /\ onSelection
    \/ /\ selectedLayers # <<>>
       /\ handleClearMap
       /\ onSelection

MapSteps(addFirst) ==
    \/ MapInitialized
    \/ \E i \in 1..Len(mapRuns) :
          /\ MapImportResume(i, addFirst)
          /\ Len(mapLayers') <= MaxMapLayers
    \/ \E i \in 1..Len(mapRuns), ok \in BOOLEAN :
          /\ MapLoadResume(i, ok, addFirst)
          /\ Len(mapLayers') <= MaxMapLayers

NextMap == HomeSteps(Rendered) \/ MapSteps(FALSE)

SpecMap == Init /\ [][NextMap]_vars

NextMapAddFirst == HomeSteps(Rendered) \/ MapSteps(TRUE)

SpecMapAddFirst == Init /\ [][NextMapAddFirst]_vars

----------------------------------------------------------------------------
(* ExportMapButton: handleExport builds the configuration document from its  *)
(* props, layers (the selection) and viewRef (the view Home read at its last *)
(* render), before any await.                                                *)

\* the document's layers list kept only the layers the map can draw
ExportLayers_ServedOnly(layers) ==
    LET served_ == SelectSeq(layers, HasService)
    IN  [k \in 1..Len(served_) |->
           [name |-> served_[k].name, agency |-> served_[k].agency,
            serviceUrl |-> served_[k].serviceUrl, status |-> served_[k].status,
            duaRequired |-> served_[k].duaRequired,
            giiRequired |-> served_[k].giiRequired]]

\* layers.map(layer => ({name, agency, serviceUrl, status, duaRequired, giiRequired}))
ExportLayers(layers) ==
    [k \in 1..Len(layers) |->
       [name |-> layers[k].name, agency |-> layers[k].agency,
        serviceUrl |-> layers[k].serviceUrl, status |-> layers[k].status,
        duaRequired |-> layers[k].duaRequired,
        giiRequired |-> layers[k].giiRequired]]

\* alert('No layers to export'): nothing is downloaded
NoDocument == [alert |-> "No layers to export", layers |-> <<>>]

\* the downloaded mapConfig, as far as the selection goes
Document(layers) == [alert |-> "exported", layers |-> ExportLayers(layers)]

handleExport(layers, view) ==
    /\ exportDoc' = IF ~view \/ Len(layers) = 0 THEN NoDocument ELSE Document(layers)
    /\ UNCHANGED <<homeVars, recent, viewReady, mapLayers, layerRefs, mapRuns,
                   viewProp, served, fetched>>

\* the Export button of the Active Layers panel, shown while layers are selected
Export ==
    /\ selectedLayers # <<>>
    /\ handleExport(selectedLayers, viewProp)

\* handleExport reads its two props only: the updateLayers calls of MapView
\* are left out here, the creation of the view is not
NextExport == HomeSteps(HomeOnly) \/ MapInitialized \/ Export

SpecExport == Init /\ [][NextExport]_vars

ExportFields == {"name", "agency", "serviceUrl", "status", "duaRequired", "giiRequired"}

\* C26: a step that changes what the exporter produced is a pure read: it
\* leaves the selection and the rest of Home as they are; without a view
\* (or with no layer) it produces no document; otherwise the document's
\* layers list has one entry per selected layer, in the order of the
\* selection, carrying that layer's name, agency, serviceUrl, status,
\* duaRequired and giiRequired.
C26_ExportIsPureRead ==
    [][exportDoc' # exportDoc =>
         /\ selectedLayers' = selectedLayers
         /\ UNCHANGED homeVars
         /\ (~viewReady \/ selectedLayers = <<>>) => exportDoc' = NoDocument
         /\ exportDoc' # NoDocument =>
               /\ Len(exportDoc'.layers) = Len(selectedLayers)
               /\ \A k \in 1..Len(selectedLayers) :
                     /\ DOMAIN exportDoc'.layers[k] = ExportFields
                     /\ \A f \in ExportFields :
                           exportDoc'.layers[k][f] = selectedLayers[k][f]]_vars

\* a document was exported for a selection of two layers, one of them
\* without a service URL
C26_Witness ==
    /\ exportDoc # <<>>
    /\ exportDoc # NoDocument
    /\ Len(exportDoc.layers) = 2
    /\ exportDoc.layers[2].serviceUrl = NoEndpoint
    /\ exportDoc.layers[1].name = selectedLayers[1].name

----------------------------------------------------------------------------
(* hurricaneService: fetchActiveHurricanes.  A reply of the network is a    *)
(* rejected fetch, a response that is not ok, a body that is not JSON, or a *)
(* parsed body.  hurricaneService.ts reads the GeoJSON feed (data.features); *)
(* the variant of part_007 reads CurrentStorms.json (data.activeStorms).    *)

\* a GeoJSON feature of the feed: properties may be missing, so may the
\* name in them; the geometry may be missing or have no coordinates
FeedFeatures ==
    [hasProps : BOOLEAN, STORMNAME : {"", "Ian"},
     geometry : {"none", "Point", "GeometryCollection"}]
       \ {f \in [hasProps : {FALSE}, STORMNAME : {"Ian"},
                  geometry : {"none", "Point", "GeometryCollection"}] : TRUE}

FeedStorm == [name |-> "Ian"]

NoKeys == [isNull |-> FALSE, hasFeatures |-> FALSE, features |-> <<>>,
           hasStorms |-> FALSE, activeStorms |-> <<>>]

\* the parsed bodies: null, an object without either list, one with features,
\* one with activeStorms
FeedData ==
    {[NoKeys EXCEPT !.isNull = TRUE], NoKeys}
      \cup {[NoKeys EXCEPT !.hasFeatures = TRUE, !.features = fs] :
               fs \in UNION {[1..n -> FeedFeatures] : n \in 0..FeedMaxLen}}
      \cup {[NoKeys EXCEPT !.hasStorms = TRUE, !.activeStorms = ss] :
               ss \in {<<>>, <<FeedStorm>>}}

FeedReplies ==
    {[kind |-> k, data |-> NoKeys] : k \in {"rejects", "notOk", "badJson"}}
      \cup {[kind |-> "json", data |-> d] : d \in FeedData}

Thrown == [thrown |-> TRUE, value |-> <<>>]
Returned(value) == [thrown |-> FALSE, value |-> value]
Resolved(value) == [rejected |-> FALSE, value |-> value]

\* getMockHurricaneData()
MockHurricaneData == <<[name |-> "Demo Hurricane"]>>

\* props.STORMNAME || props.name || 'Unknown'
StormName(feature) == IF feature.STORMNAME # "" THEN feature.STORMNAME ELSE "Unknown"

\* the forEach over data.features: a feature with properties and a geometry
\* is pushed; reading coordinates[1] of a geometry without coordinates throws
RECURSIVE PushFeatures(_, _)
PushFeatures(features, hurricanes) ==
    IF features = <<>> THEN Returned(hurricanes)
    ELSE LET feature == Head(features)
         IN  IF feature.hasProps /\ feature.geometry # "none"
             THEN IF feature.geometry = "GeometryCollection" THEN Thrown
                  ELSE PushFeatures(Tail(features),
                                    Append(hurricanes, [name |-> StormName(feature)]))
             ELSE PushFeatures(Tail(features), hurricanes)

\* the try block of hurricaneService.ts
TryFetch(reply) ==
    IF reply.kind = "rejects" THEN Thrown
    ELSE IF reply.kind = "notOk" THEN Returned(<<>>)
    ELSE IF reply.kind = "badJson" THEN Thrown
    ELSE IF reply.data.isNull THEN Thrown
    ELSE IF reply.data.hasFeatures THEN PushFeatures(reply.data.features, <<>>)
    ELSE Returned(<<>>)

\* fetchActiveHurricanes of hurricaneService.ts: the catch returns []
fetchActiveHurricanes(reply) ==
    IF TryFetch(reply).thrown THEN Resolved(<<>>) ELSE Resolved(TryFetch(reply).value)

\* the try block of the variant: data.activeStorms?.map(...) || []
TryFetchCurrentStorms(reply) ==
    IF reply.kind = "rejects" THEN Thrown
    ELSE IF reply.kind = "notOk" THEN Returned(<<>>)
    ELSE IF reply.kind = "badJson" THEN Thrown
    ELSE IF reply.data.isNull THEN Thrown
    ELSE IF reply.data.hasStorms
    THEN Returned([k \in 1..Len(reply.data.activeStorms) |->
                     [name |-> reply.data.activeStorms[k].name]])
    ELSE Returned(<<>>)

\* fetchActiveHurricanes of the variant: the catch returns the mock storm
fetchCurrentStorms(reply) ==
    IF TryFetchCurrentStorms(reply).thrown THEN Resolved(MockHurricaneData)
    ELSE Resolved(TryFetchCurrentStorms(reply).value)

Fetch(reply) ==
    /\ fetched' = Push(fetched, [variant |-> "hurricaneService.ts", reply |-> reply,
                                 result |-> fetchActiveHurricanes(reply)], FeedWindow)
    /\ UNCHANGED <<homeVars, recent, viewReady, mapLayers, layerRefs, mapRuns,
                   viewProp, exportDoc, served>>

FetchCurrentStorms(reply) ==
    /\ fetched' = Push(fetched, [variant |-> "part_007", reply |-> reply,
                                 result |-> fetchCurrentStorms(reply)], FeedWindow)
    /\ UNCHANGED <<homeVars, recent, viewReady, mapLayers, layerRefs, mapRuns,
                   viewProp, exportDoc, served>>

NextFeed ==
    \/ \E reply \in FeedReplies : Fetch(reply)
    \/ \E reply \in FeedReplies : FetchCurrentStorms(reply)

SpecFeed == Init /\ [][NextFeed]_vars

\* the names of the storms a reply carries
ReplyNames(reply) ==
    {StormName(reply.data.features[k]) : k \in 1..Len(reply.data.features)}
      \cup {reply.data.activeStorms[k].name : k \in 1..Len(reply.data.activeStorms)}

\* C27: every call of fetchActiveHurricanes resolves; it resolves to the
\* empty list when the fetch rejects, the response is not ok or the body
\* cannot be parsed; and every storm it returns is one the reply carried,
\* never a substitute.
C27_NeverRejectsNeverMocks ==
    \A k \in 1..Len(fetched) :
       LET call == fetched[k]
       IN  /\ ~call.result.rejected
           /\ call.reply.kind # "json" => call.result.value = <<>>
           /\ \A j \in 1..Len(call.result.value) :
                 call.result.value[j].name \in ReplyNames(call.reply)

----------------------------------------------------------------------------
(* Properties of the map *)

ShownNames == {mapLayers[k].name : k \in 1..Len(mapLayers)}

ServedNames(sel) == {sel[k].name : k \in {j \in 1..Len(sel) : HasService(sel[j])}}

\* C23: whenever no updateLayers call is in flight, the names of the
\* FeatureLayers on the map are the names of the selected layers that have
\* a service URL.
C23_MapFollowsSelection ==
    mapRuns = <<>> => ShownNames = ServedNames(selectedLayers)

\* C24: the map never holds two FeatureLayers of one name, however the
\* updateLayers calls overlap.
C24_OneLayerPerName ==
    \A j, k \in 1..Len(mapLayers) :
       mapLayers[j].name = mapLayers[k].name => j = k

\* C25: every FeatureLayer on the map is in the registry under its name,
\* or is the one a suspended updateLayers call has just added and is about
\* to register; so a layer whose load failed is registered too.
C25_AddedIsRegistered ==
    \A k \in 1..Len(mapLayers) :
       \/ [name |-> mapLayers[k].name, id |-> mapLayers[k].id] \in layerRefs
       \/ \E i \in 1..Len(mapRuns) : mapRuns[i].held = mapLayers[k].id

----------------------------------------------------------------------------
(* Properties of Home's loading flag and of its live data *)

\* C28: isLoading is TRUE while a search or a preset load is in flight,
\* also when several are, and FALSE once none is; a search that failed
\* has left the results empty.
C28_LoadingWhileInFlight ==
    /\ isLoading <=> (pendingSearches # <<>> \/ runs # <<>>)
    /\ (searchFailed /\ pendingSearches = <<>>) => searchResults = <<>>

\* C29: hurricaneData and wildfireData are never both non-empty.
C29_OneLiveDataSet ==
    ~(hurricaneData # <<>> /\ wildfireData # <<>>)

----------------------------------------------------------------------------
(* The presets over a catalog in which one term has three layers with a    *)
(* service URL and one without                                             *)

HospitalC == [name |-> <<"H","o","s","p","i","t","a","l"," ","C">>,
              agency |-> <<"H","H","S">>, serviceUrl |-> "http://c",
              status |-> "Active", duaRequired |-> FALSE, giiRequired |-> FALSE]
HospitalD == [name |-> <<"H","o","s","p","i","t","a","l"," ","D">>,
              agency |-> <<"H","H","S">>, serviceUrl |-> "http://d",
              status |-> "Active", duaRequired |-> FALSE, giiRequired |-> FALSE]

PresetCatalog == <<HospitalD, HospitalC, HospitalB, HospitalA, FireStation1>>

NextPreset ==
    \/ /\ ~loaded
       /\ LoadCatalog(PresetCatalog)
       /\ Untracked
    \/ /\ hurricaneData = <<>> => Len(runs) < PresetMaxRuns
       /\ handleHurricanePreset
       /\ Untracked
    \/ /\ wildfireData = <<>> => Len(runs) < PresetMaxRuns
       /\ handleWildfirePreset
       /\ Untracked
    \/ \E i \in 1..Len(runs), data \in FeedOutcomes : PresetFeedResume(i, data) /\ Untracked
    \/ \E i \in 1..Len(runs) :
          /\ PresetSearchResume(i)
          /\ Len(selectedLayers') <= PresetMaxSel
          /\ Untracked

SpecPreset == Init /\ [][NextPreset]_vars

\* where each preset call stands
Positions(rs) == [j \in DOMAIN rs |-> [kind |-> rs[j].kind, pc |-> rs[j].pc]]

\* this step is call i of a preset resuming with the results of a search:
\* it moves to its next term or, after the last, ends; the others stay
PresetStepOf(i) ==
    /\ runs[i].pc >= 1
    /\ runs[i].ok
    /\ IF runs[i].pc < Len(Terms(runs[i].kind))
       THEN Positions(runs') = [Positions(runs) EXCEPT ![i].pc = runs[i].pc + 1]
       ELSE Positions(runs') = RemoveAt(Positions(runs), i)

\* what the step appended to the selection
Appended == SubSeq(selectedLayers', Len(selectedLayers) + 1, Len(selectedLayers'))

\* the results of the term with a service URL, in ranked order
ServedResults(term) == SelectSeq(SearchLayersResult(term), HasService)

\* C30: a preset call that resumes with the results of a term only appends
\* to the selection; every entry it appends has a service URL and is one of
\* the first two ranked results with a service URL; it appends at most two,
\* and with those of the terms before at most two per term, twelve for the
\* six terms at most.
C30_PresetAddsFirstTwo ==
    [][\A i \in 1..Len(runs) :
         PresetStepOf(i) =>
            LET served_ == ServedResults(Terms(runs[i].kind)[runs[i].pc])
            IN  /\ Len(selectedLayers') >= Len(selectedLayers)
                /\ SubSeq(selectedLayers', 1, Len(selectedLayers)) = selectedLayers
                /\ \A k \in 1..Len(Appended) :
                      /\ HasService(Appended[k])
                      /\ \E j \in 1..Len(served_) : j <= 2 /\ Appended[k] = served_[j]
                /\ Len(Appended) <= 2
                /\ Len(runs[i].batch) + Len(Appended) <= 2 * runs[i].pc
                /\ Len(Terms(runs[i].kind)) = 6]_vars

\* the hurricane preset has taken Hospital A and Hospital C for its first
\* term and left Hospital B (no service URL) and Hospital D (the third
\* with one) out
C30_Witness ==
    /\ runs # <<>>
    /\ runs[1].kind = "hurricane"
    /\ runs[1].pc = 2
    /\ selectedLayers = <<HospitalA, HospitalC>>
    /\ Len(ServedResults(HurricaneTerms[1])) = 3

====
